---- MODULE Spec2Model ----
(***************************************************************************)
(* A model of energylevel.py: one run of the report pipeline               *)
(*   init_api -> get_body_battery/extract_values -> per-date aggregation   *)
(*   -> generate_html_report -> send_email_report                          *)
(* Text (ISO dates, the narrative) is a sequence of one-character strings. *)
(* A fallible evaluation returns [ok |-> TRUE, val |-> v] or               *)
(* [ok |-> FALSE, val |-> <name of the exception>].                        *)
(***************************************************************************)
EXTENDS Integers, Sequences, FiniteSets, TLC

\* Largest number of dates in one body-battery response.
MaxDays == 2
\* charged and drained range over 0..MaxEnergy.
MaxEnergy == 1

----------------------------------------------------------------------------
(* Lookup tables                                                           *)

feedback_mapping ==
  [c \in {"NEGATIVE_NOT_RESTORATIVE", "NEGATIVE_LONG_BUT_NOT_RESTORATIVE",
          "NEGATIVE_SHORT_AND_POOR_QUALITY", "NEGATIVE_SHORT_AND_NONRECOVERING",
          "POSITIVE_OPTIMAL_STRUCTURE", "POSITIVE_LONG_AND_CALM",
          "POSITIVE_LONG_AND_CONTINUOUS", "POSITIVE_DEEP"} |->
     CASE c = "NEGATIVE_NOT_RESTORATIVE" ->
            "Sleep is observed to be non-restorative, likely indicating poor sleep quality. This could be due to various factors such as stress, late bedtime, or other disturbances."
       [] c = "NEGATIVE_LONG_BUT_NOT_RESTORATIVE" ->
            "Although sleep duration is extended, it is still not restorative. This may be influenced by factors like very strenuous exercise, impacting the overall restfulness of the sleep."
       [] c = "NEGATIVE_SHORT_AND_POOR_QUALITY" ->
            "Sleep duration is short, and the quality is poor. This could be a result of insufficient sleep time or other factors affecting the overall sleep experience."
       [] c = "NEGATIVE_SHORT_AND_NONRECOVERING" ->
            "Sleep is short, and there's inadequate recovery, likely influenced by factors such as late bedtime. The sleep lacks the necessary duration for proper restoration."
       [] c = "POSITIVE_OPTIMAL_STRUCTURE" ->
            "Sleep is structured optimally, suggesting a positive sleep pattern without any notable issues or disturbances. This is indicative of good sleep quality."
       [] c = "POSITIVE_LONG_AND_CALM" ->
            "Sleep duration is long and characterized by a calm state. This positive sleep pattern is observed, potentially contributing to better overall well-being."
       [] c = "POSITIVE_LONG_AND_CONTINUOUS" ->
            "Sleep duration is both long and continuous, implying a positive and uninterrupted sleep experience. This is generally associated with better restfulness."
       [] c = "POSITIVE_DEEP" ->
            "Deep sleep is observed, indicating a positive aspect of the sleep cycle. However, it might be impacted by external factors, such as a stressful day, affecting the overall sleep experience."]

insight_mapping ==
  [c \in {"NONE", "NEGATIVE_LATE_BED_TIME", "NEGATIVE_VERY_STRENUOUS_EXERCISE",
          "NEGATIVE_STRESSFUL_DAY", "POSITIVE_EXERCISE", "POSITIVE_LATE_BED_TIME"} |->
     CASE c = "NONE" ->
            "No specific sleep insight is identified. This could mean that there are no notable external factors influencing the sleep pattern during the analyzed period."
       [] c = "NEGATIVE_LATE_BED_TIME" ->
            "Sleep is negatively affected by a late bedtime. Going to bed late may disrupt the natural sleep-wake cycle, potentially leading to difficulties in falling asleep or achieving restorative sleep."
       [] c = "NEGATIVE_VERY_STRENUOUS_EXERCISE" ->
            "Intense or very strenuous exercise close to bedtime negatively impacts sleep quality. The body needs time to wind down, and vigorous exercise shortly before sleep may interfere with this process."
       [] c = "NEGATIVE_STRESSFUL_DAY" ->
            "Sleep is negatively affected by a stressful day. High stress levels can interfere with the ability to relax and unwind, potentially impacting the overall quality of sleep."
       [] c = "POSITIVE_EXERCISE" ->
            "The positive influence of exercise on sleep is observed. Regular physical activity is known to contribute to better sleep quality and overall well-being."
       [] c = "POSITIVE_LATE_BED_TIME" ->
            "Going to bed late is observed as a positive factor in this context. It's important to note that individual sleep preferences and rhythms can vary, and for some, a later bedtime may align with better sleep quality."]

\* A lookup that substitutes a fixed default on a miss (dict.get(key, "")).
get_sleep_feedback_explanation_blank(sleep_feedback) ==
  IF sleep_feedback \in DOMAIN feedback_mapping
    THEN feedback_mapping[sleep_feedback] ELSE ""

\* feedback_mapping.get(sleep_feedback, sleep_feedback)
get_sleep_feedback_explanation(sleep_feedback) ==
  IF sleep_feedback \in DOMAIN feedback_mapping
    THEN feedback_mapping[sleep_feedback] ELSE sleep_feedback

\* insight_mapping.get(sleep_insight, sleep_insight)
get_sleep_insight_explanation(sleep_insight) ==
  IF sleep_insight \in DOMAIN insight_mapping
    THEN insight_mapping[sleep_insight] ELSE sleep_insight

----------------------------------------------------------------------------
(* Dictionary subscripting                                                 *)

NumericKeys ==
  {"charged", "drained", "sleepTimeSeconds", "deepSleepSeconds",
   "lightSleepSeconds", "remSleepSeconds", "awakeSleepSeconds",
   "avgStressLevel", "maxStressLevel"}

\* A subscript that substitutes 0 for an absent number (d.get(k, 0)).
SubscriptOrZero(d, k) ==
  IF k \in DOMAIN d THEN [ok |-> TRUE, val |-> d[k]]
  ELSE IF k \in NumericKeys THEN [ok |-> TRUE, val |-> 0]
  ELSE [ok |-> FALSE, val |-> "KeyError"]

\* d[k]: the value, or KeyError when the key is absent.
Subscript(d, k) ==
  IF k \in DOMAIN d THEN [ok |-> TRUE, val |-> d[k]]
  ELSE [ok |-> FALSE, val |-> "KeyError"]

\* The dictionary d without the key k.
Without(d, k) == [x \in (DOMAIN d) \ {k} |-> d[x]]

BBKeys == {"date", "charged", "drained"}

\* extract_values: project every entry on date, charged, drained.
extract_values(json_data) ==
  LET bad == {i \in 1..Len(json_data) :
                \E k \in BBKeys : ~Subscript(json_data[i], k).ok}
  IN  IF bad = {}
        THEN [ok |-> TRUE,
              val |-> [i \in 1..Len(json_data) |->
                         [date    |-> Subscript(json_data[i], "date").val,
                          charged |-> Subscript(json_data[i], "charged").val,
                          drained |-> Subscript(json_data[i], "drained").val]]]
        ELSE [ok |-> FALSE, val |-> "KeyError"]

\* Lines 337-347 of the aggregation loop: the fields read from one sleep
\* response, the two codes replaced by their explanations.
SleepKeys ==
  {"sleepTimeSeconds", "deepSleepSeconds", "lightSleepSeconds",
   "remSleepSeconds", "awakeSleepSeconds", "sleepScoreFeedback",
   "sleepScoreInsight"}

sleep_fields(sleep_data) ==
  LET dto == Subscript(sleep_data, "dailySleepDTO")
  IN  IF ~dto.ok THEN [ok |-> FALSE, val |-> "KeyError"]
      ELSE IF \E k \in SleepKeys : ~Subscript(dto.val, k).ok
        THEN [ok |-> FALSE, val |-> "KeyError"]
      ELSE [ok |-> TRUE,
            val |-> [sleep_seconds       |-> Subscript(dto.val, "sleepTimeSeconds").val,
                     deep_sleep_seconds  |-> Subscript(dto.val, "deepSleepSeconds").val,
                     light_sleep_seconds |-> Subscript(dto.val, "lightSleepSeconds").val,
                     rem_sleep_seconds   |-> Subscript(dto.val, "remSleepSeconds").val,
                     awake_sleep_seconds |-> Subscript(dto.val, "awakeSleepSeconds").val,
                     sleep_feedback |-> get_sleep_feedback_explanation(
                                          Subscript(dto.val, "sleepScoreFeedback").val),
                     sleep_insight  |-> get_sleep_insight_explanation(
                                          Subscript(dto.val, "sleepScoreInsight").val)]]

\* Lines 350-351: the fields read from one stress response.
StressKeys == {"avgStressLevel", "maxStressLevel"}

stress_fields(stress_data) ==
  IF \E k \in StressKeys : ~Subscript(stress_data, k).ok
    THEN [ok |-> FALSE, val |-> "KeyError"]
    ELSE [ok |-> TRUE,
          val |-> [avg_stress_level |-> Subscript(stress_data, "avgStressLevel").val,
                   max_stress_level |-> Subscript(stress_data, "maxStressLevel").val]]

\* Lines 353-366: the combined record of one date.
new_entry(entry, sleep, stress) ==
  [date                |-> entry.date,
   charged             |-> entry.charged,
   drained             |-> entry.drained,
   sleep_seconds       |-> sleep.sleep_seconds,
   deep_sleep_seconds  |-> sleep.deep_sleep_seconds,
   light_sleep_seconds |-> sleep.light_sleep_seconds,
   rem_sleep_seconds   |-> sleep.rem_sleep_seconds,
   awake_sleep_seconds |-> sleep.awake_sleep_seconds,
   sleep_feedback      |-> sleep.sleep_feedback,
   sleep_insight       |-> sleep.sleep_insight,
   avg_stress_level    |-> stress.avg_stress_level,
   max_stress_level    |-> stress.max_stress_level]

----------------------------------------------------------------------------
(* Dates: datetime.datetime.strptime(date, "%Y-%m-%d").weekday()           *)

DigitChars == <<"0", "1", "2", "3", "4", "5", "6", "7", "8", "9">>

Digit(c) == (CHOOSE n \in 1..10 : DigitChars[n] = c) - 1

\* The year, month and day of a zero-padded "YYYY-MM-DD" text.
Strptime(date) ==
  [year  |-> Digit(date[1]) * 1000 + Digit(date[2]) * 100
             + Digit(date[3]) * 10 + Digit(date[4]),
   month |-> Digit(date[6]) * 10 + Digit(date[7]),
   day   |-> Digit(date[9]) * 10 + Digit(date[10])]

IsLeap(year) == year % 4 = 0 /\ (year % 100 # 0 \/ year % 400 = 0)

DaysInMonth(year, month) ==
  IF month = 2 THEN (IF IsLeap(year) THEN 29 ELSE 28)
  ELSE IF month \in {4, 6, 9, 11} THEN 30 ELSE 31

RECURSIVE DaysBeforeMonth(_, _)
DaysBeforeMonth(year, month) ==
  IF month = 1 THEN 0
  ELSE DaysBeforeMonth(year, month - 1) + DaysInMonth(year, month - 1)

\* The proleptic Gregorian ordinal of a date, 0001-01-01 being day 1.
ToOrdinal(d) ==
  LET y == d.year - 1
  IN  y * 365 + (y \div 4) - (y \div 100) + (y \div 400)
      + DaysBeforeMonth(d.year, d.month) + d.day

\* date.weekday(): Monday is 0, Sunday is 6.
Weekday(d) == (ToOrdinal(d) + 6) % 7

\* calendar.day_name, indexed from 0.
day_name ==
  [w \in 0..6 |->
     <<"Monday", "Tuesday", "Wednesday", "Thursday", "Friday", "Saturday",
       "Sunday">>[w + 1]]

----------------------------------------------------------------------------
(* The window summary of generate_html_report                              *)

RECURSIVE SumOf(_, _)
\* sum(entry[field] for entry in data)
SumOf(data, field) ==
  IF data = <<>> THEN 0
  ELSE data[1][field] + SumOf(Tail(data), field)

\* A trend that counts a balance of zero as negative.
AverageTrendStrict(net_energy_level) ==
  IF net_energy_level > 0 THEN "Net Positive" ELSE "Net Negative"

\* "Net Positive" if net_energy_level >= 0 else "Net Negative"
AverageTrend(net_energy_level) ==
  IF net_energy_level >= 0 THEN "Net Positive" ELSE "Net Negative"

IsNegativeDay(entry) == entry.charged < entry.drained

\* A positive list that leaves out the days with charged = drained.
PositiveDaysStrict(data) ==
  SelectSeq(data, LAMBDA entry : entry.charged > entry.drained)

\* [entry for entry in data if entry["charged"] < entry["drained"]]
NegativeDays(data) == SelectSeq(data, IsNegativeDay)

\* [entry for entry in data if entry["charged"] >= entry["drained"]]
PositiveDays(data) ==
  SelectSeq(data, LAMBDA entry : entry.charged >= entry.drained)

\* [days_of_week.count(day) for day in range(7)]
DayOfWeekCounts(days_of_week) ==
  [day \in 0..6 |->
     Cardinality({i \in 1..Len(days_of_week) : days_of_week[i] = day})]

\* The largest value of a list of counts.
MaxCount(counts) ==
  CHOOSE m \in {counts[d] : d \in DOMAIN counts} :
    \A d \in DOMAIN counts : counts[d] <= m

\* An index search that returns the last position of the value.
LastIndexOf(counts, value) ==
  CHOOSE d \in DOMAIN counts :
    /\ counts[d] = value
    /\ \A e \in DOMAIN counts : counts[e] = value => e <= d

\* list.index(value): the first position of the value.
IndexOf(counts, value) ==
  CHOOSE d \in DOMAIN counts :
    /\ counts[d] = value
    /\ \A e \in DOMAIN counts : counts[e] = value => d <= e

\* Lines 225-235: the weekday with the most negative days, or "N/A".
MaxDayOfWeekNegative(negative_days) ==
  IF negative_days # <<>>
    THEN LET days_of_week ==
               [i \in 1..Len(negative_days) |->
                  Weekday(Strptime(negative_days[i].date))]
             day_of_week_counts == DayOfWeekCounts(days_of_week)
         IN  day_name[IndexOf(day_of_week_counts, MaxCount(day_of_week_counts))]
    ELSE "N/A"

\* Lines 111-115: the colour of the bar of every date of a chart.
BarColors(data) ==
  [i \in 1..Len(data) |->
     IF data[i].charged > data[i].drained THEN "green" ELSE "red"]

----------------------------------------------------------------------------
(* Text replacement: str.replace(old, new)                                 *)

StartsWith(s, old) ==
  /\ Len(s) >= Len(old)
  /\ \A i \in 1..Len(old) : s[i] = old[i]

RECURSIVE Replace(_, _, _)
\* Every non-overlapping occurrence of old, scanning from the left, becomes new.
Replace(s, old, new) ==
  IF s = <<>> THEN <<>>
  ELSE IF StartsWith(s, old)
    THEN new \o Replace(SubSeq(s, Len(old) + 1, Len(s)), old, new)
    ELSE <<s[1]>> \o Replace(Tail(s), old, new)

Newline == <<"\n">>
BoldMarker == <<"*", "*", " ">>
BrTag    == <<"<", "b", "r", ">">>
OpenTag  == <<"<", "b", ">">>
CloseTag == <<"<", "/", "b", ">">>

\* Lines 239-241: the narrative as placed in the report.
PostProcess(advice_text) ==
  Replace(Replace(Replace(advice_text, Newline, BrTag), BoldMarker, CloseTag),
          BoldMarker, OpenTag)

----------------------------------------------------------------------------
(* Inputs: what the fitness provider and the narrative generator return    *)

\* Dates a response can carry, in chronological order, within one 30-day
\* window: a Sunday, a Monday, a Wednesday, a leap day and the next Monday.
DatePool ==
  << <<"2", "0", "2", "4", "-", "0", "2", "-", "1", "1">>,
     <<"2", "0", "2", "4", "-", "0", "2", "-", "1", "2">>,
     <<"2", "0", "2", "4", "-", "0", "2", "-", "1", "4">>,
     <<"2", "0", "2", "4", "-", "0", "2", "-", "2", "9">>,
     <<"2", "0", "2", "4", "-", "0", "3", "-", "0", "4">> >>

Energy == 0..MaxEnergy

\* The chronological selections of n dates of the pool.
Selections(n) ==
  {w \in [1..n -> 1..Len(DatePool)] : \A i, j \in 1..n : i < j => w[i] < w[j]}

\* The complete body-battery responses of n dates.
ResponsesOf(n) ==
  {[i \in 1..n |-> [date    |-> DatePool[w[i]],
                    charged |-> e[i][1],
                    drained |-> e[i][2]]] :
     w \in Selections(n), e \in [1..n -> Energy \X Energy]}

BodyBatteryResponses == UNION {ResponsesOf(n) : n \in 0..MaxDays}

\* No field absent, or the field k absent from the entry of the i-th date.
NoDrop == <<0, "">>
Drops(json) == {NoDrop} \cup ((1..Len(json)) \X BBKeys)

Dropped(json, drop) ==
  IF drop = NoDrop THEN json
  ELSE [json EXCEPT ![drop[1]] = Without(json[drop[1]], drop[2])]

\* A sleep response with the two codes, the field k absent ("" for none).
SleepResponse(codes, k) ==
  LET dto == [sleepTimeSeconds   |-> 27000,
              deepSleepSeconds   |-> 5400,
              lightSleepSeconds  |-> 14400,
              remSleepSeconds    |-> 5400,
              awakeSleepSeconds  |-> 1800,
              sleepScoreFeedback |-> codes[1],
              sleepScoreInsight  |-> codes[2]]
      full == [dailySleepDTO |-> dto]
  IN  IF k = "" THEN full
      ELSE IF k = "dailySleepDTO" THEN Without(full, k)
      ELSE [dailySleepDTO |-> Without(dto, k)]

\* A stress response, the field k absent ("" for none).
StressResponse(k) ==
  LET full == [avgStressLevel |-> 30, maxStressLevel |-> 90]
  IN  IF k = "" THEN full ELSE Without(full, k)

\* The codes of the sleep responses of a whole run: one known, one unknown.
SleepCodeSamples == {<<"POSITIVE_DEEP", "SOME_NEW_CODE">>}

\* The codes the lookup tables are applied to: every code of each table,
\* codes of the other table, a new code and the empty text.
FeedbackInputs ==
  DOMAIN feedback_mapping \cup {"SOME_NEW_CODE", "NONE", ""}
InsightInputs ==
  DOMAIN insight_mapping \cup {"SOME_NEW_CODE", "POSITIVE_DEEP", ""}

\* Narratives the generator can return: empty, two lines, one bold span
\* closed by the marker, two marker occurrences, three marker occurrences.
AdviceTexts ==
  { <<>>,
    <<"a", "\n", "b">>,
    <<"*", "*", "a", "*", "*", " ", "b">>,
    <<"*", "*", " ", "a", "*", "*", " ">>,
    <<"*", "*", " ", "a", "*", "*", " ", "\n", "*", "*", " ">> }

ChartFiles ==
  <<"charged_vs_drained_plot.png", "stress_level.png", "sleep_statistics.png">>
ReportFile == "energy_report.html"

----------------------------------------------------------------------------
(* State                                                                   *)

VARIABLES
  pc,                    \* the statement the run is at, "done" or "failed"
  error,                 \* the exception that ended the run, "" for none
  failed_at,             \* the statement that raised it
  api,                   \* the provider session, "" before login
  bb_result_array,       \* extract_values(api.get_body_battery(...))
  idx,                   \* position of the aggregation loop in bb_result_array
  sleep_data,            \* the last sleep response
  stress_data,           \* the last stress response
  sleep_entry,           \* the values read from sleep_data
  combined_data_array,   \* the daily records
  absent,                \* the first required field a response lacked
  total_charged, total_drained, net_energy_level,
  input_text,            \* the request to the narrative generator
  generated_text,        \* the narrative as returned
  advice,                \* the narrative as placed in the report
  llm_calls,             \* calls made to the narrative generator
  average_trend, negative_days, positive_days, max_day_of_week_negative,
  html_report,           \* the rendered report
  disk,                  \* chart and report files written by this run
  msg,                   \* the message composed by send_email_report
  sent                   \* messages accepted by the mail server

vars ==
  <<pc, error, failed_at, api, bb_result_array, idx, sleep_data, stress_data,
    sleep_entry, combined_data_array, absent, total_charged, total_drained,
    net_energy_level, input_text, generated_text, advice, llm_calls,
    average_trend, negative_days, positive_days, max_day_of_week_negative,
    html_report, disk, msg, sent>>

fetch_vars ==
  <<api, bb_result_array, idx, sleep_data, stress_data, sleep_entry,
    combined_data_array, absent>>
report_vars ==
  <<total_charged, total_drained, net_energy_level, input_text,
    generated_text, advice, llm_calls, average_trend, negative_days,
    positive_days, max_day_of_week_negative, html_report>>
out_vars == <<disk, msg, sent>>

NoAbsent == [day |-> 0, key |-> ""]
NoFile == [kind |-> "none", complete |-> FALSE, data |-> <<>>]
EmptyDisk ==
  [f \in {ChartFiles[i] : i \in 1..3} \cup {ReportFile} |-> NoFile]

Written(f) == disk[f].kind # "none"

\* The run ends with the exception e raised at the current statement.
Raise(e) ==
  /\ pc' = "failed"
  /\ error' = e
  /\ failed_at' = pc

Goto(next) ==
  /\ pc' = next
  /\ UNCHANGED <<error, failed_at>>

Blank ==
  /\ error = "" /\ failed_at = "" /\ api = ""
  /\ bb_result_array = <<>> /\ idx = 0
  /\ sleep_data = <<>> /\ stress_data = <<>> /\ sleep_entry = <<>>
  /\ combined_data_array = <<>> /\ absent = NoAbsent
  /\ total_charged = 0 /\ total_drained = 0 /\ net_energy_level = 0
  /\ input_text = <<>> /\ generated_text = <<>> /\ advice = <<>>
  /\ llm_calls = 0
  /\ average_trend = "" /\ negative_days = <<>> /\ positive_days = <<>>
  /\ max_day_of_week_negative = ""
  /\ html_report = <<>> /\ disk = EmptyDisk /\ msg = <<>> /\ sent = <<>>

\* Lines 304-320: the settings are read, nothing is fetched yet.
Init ==
  /\ pc = "token_login"
  /\ Blank

----------------------------------------------------------------------------
(* init_api                                                                *)

\* Lines 59-62: login with the stored tokens.
TokenLogin ==
  /\ pc = "token_login"
  /\ \/ /\ api' = "garmin"
        /\ Goto("get_body_battery")
     \/ \* FileNotFoundError, GarthHTTPError or authentication error: caught
        /\ Goto("credential_login")
        /\ UNCHANGED api
     \/ /\ Raise("GarminConnectConnectionError")
        /\ UNCHANGED api
  /\ UNCHANGED <<bb_result_array, idx, sleep_data, stress_data, sleep_entry,
                 combined_data_array, absent>>
  /\ UNCHANGED <<report_vars, out_vars>>

\* Lines 63-93: login with the credentials. The handler of line 90 uses the
\* undefined name logger, and get_credentials is undefined too, so every
\* failure leaves init_api as an exception and line 91 is never reached.
CredentialLogin ==
  /\ pc = "credential_login"
  /\ \/ /\ api' = "garmin"
        /\ Goto("get_body_battery")
     \/ /\ \E e \in {"NameError", "GarminConnectConnectionError"} : Raise(e)
        /\ UNCHANGED api
  /\ UNCHANGED <<bb_result_array, idx, sleep_data, stress_data, sleep_entry,
                 combined_data_array, absent>>
  /\ UNCHANGED <<report_vars, out_vars>>

----------------------------------------------------------------------------
(* Fetch and per-date aggregation, lines 328-368                           *)

\* Lines 328-332: the body-battery response and its extraction.
GetBodyBattery ==
  /\ pc = "get_body_battery"
  /\ \/ /\ Raise("GarminConnectConnectionError")
        /\ UNCHANGED <<bb_result_array, idx, absent>>
     \/ \E json \in BodyBatteryResponses : \E drop \in Drops(json) :
          LET r == extract_values(Dropped(json, drop))
          IN  /\ absent' = IF drop = NoDrop THEN absent
                           ELSE [day |-> drop[1], key |-> drop[2]]
              /\ IF r.ok
                   THEN /\ bb_result_array' = r.val
                        /\ idx' = 1
                        /\ Goto(IF r.val = <<>> THEN "totals" ELSE "get_sleep_data")
                   ELSE /\ Raise(r.val)
                        /\ UNCHANGED <<bb_result_array, idx>>
  /\ UNCHANGED <<api, sleep_data, stress_data, sleep_entry, combined_data_array>>
  /\ UNCHANGED <<report_vars, out_vars>>

\* Lines 335-347: the sleep response of the current date, its codes among
\* the given pairs.
GetSleepDataFrom(codes) ==
  /\ pc = "get_sleep_data"
  /\ \/ /\ Raise("GarminConnectConnectionError")
        /\ UNCHANGED <<sleep_data, sleep_entry, absent>>
     \/ \E c \in codes : \E k \in {"", "dailySleepDTO"} \cup SleepKeys :
          LET r == sleep_fields(SleepResponse(c, k))
          IN  /\ sleep_data' = SleepResponse(c, k)
              /\ absent' = IF k = "" THEN absent ELSE [day |-> idx, key |-> k]
              /\ IF r.ok
                   THEN /\ sleep_entry' = r.val
                        /\ Goto("get_stress_data")
                   ELSE /\ Raise(r.val)
                        /\ UNCHANGED sleep_entry
  /\ UNCHANGED <<api, bb_result_array, idx, stress_data, combined_data_array>>
  /\ UNCHANGED <<report_vars, out_vars>>

GetSleepData == GetSleepDataFrom(SleepCodeSamples)

\* Lines 349-368: the stress response of the current date; the record of
\* the date is appended and the loop moves on.
GetStressData ==
  /\ pc = "get_stress_data"
  /\ \/ /\ Raise("GarminConnectConnectionError")
        /\ UNCHANGED <<stress_data, combined_data_array, idx, absent>>
     \/ \E k \in {""} \cup StressKeys :
          LET r == stress_fields(StressResponse(k))
          IN  /\ stress_data' = StressResponse(k)
              /\ absent' = IF k = "" THEN absent ELSE [day |-> idx, key |-> k]
              /\ IF r.ok
                   THEN /\ combined_data_array' =
                             Append(combined_data_array,
                                    new_entry(bb_result_array[idx], sleep_entry, r.val))
                        /\ idx' = idx + 1
                        /\ Goto(IF idx < Len(bb_result_array)
                                  THEN "get_sleep_data" ELSE "totals")
                   ELSE /\ Raise(r.val)
                        /\ UNCHANGED <<combined_data_array, idx>>
  /\ UNCHANGED <<api, bb_result_array, sleep_data, sleep_entry>>
  /\ UNCHANGED <<report_vars, out_vars>>

----------------------------------------------------------------------------
(* generate_html_report                                                    *)

\* Lines 208-210.
Totals ==
  /\ pc = "totals"
  /\ total_charged' = SumOf(combined_data_array, "charged")
  /\ total_drained' = SumOf(combined_data_array, "drained")
  /\ net_energy_level' = total_charged' - total_drained'
  /\ Goto("narrative_request")
  /\ UNCHANGED <<input_text, generated_text, advice, llm_calls, average_trend,
                 negative_days, positive_days, max_day_of_week_negative,
                 html_report>>
  /\ UNCHANGED <<fetch_vars, out_vars>>

\* A prompt that names no dates when there are none.
PromptRangeLenient(dates) ==
  IF dates = <<>> THEN [ok |-> TRUE, val |-> <<>>]
  ELSE [ok |-> TRUE, val |-> <<dates[1], dates[Len(dates)]>>]

\* Line 189: dates[0] and dates[-1] of the prompt.
PromptRange(dates) ==
  IF dates = <<>> THEN [ok |-> FALSE, val |-> "IndexError"]
  ELSE [ok |-> TRUE, val |-> <<dates[1], dates[Len(dates)]>>]

\* generate_energy_balance_analysis, lines 177-195: the request is built.
NarrativeRequest ==
  /\ pc = "narrative_request"
  /\ LET dates == [i \in 1..Len(combined_data_array) |-> combined_data_array[i].date]
         r == PromptRange(dates)
     IN  IF r.ok
           THEN /\ input_text' = [range |-> r.val, dates |-> dates]
                /\ Goto("narrative_call")
           ELSE /\ Raise(r.val)
                /\ UNCHANGED input_text
  /\ UNCHANGED <<total_charged, total_drained, net_energy_level,
                 generated_text, advice, llm_calls, average_trend,
                 negative_days, positive_days, max_day_of_week_negative,
                 html_report>>
  /\ UNCHANGED <<fetch_vars, out_vars>>

\* A call that is made again after it failed.
NarrativeCallRetry ==
  /\ pc = "narrative_call"
  /\ llm_calls' = llm_calls + 1
  /\ \/ /\ IF llm_calls < 2
             THEN UNCHANGED <<pc, error, failed_at>>
             ELSE Raise("APIError")
        /\ UNCHANGED <<generated_text, advice>>
     \/ \E text \in AdviceTexts :
          /\ generated_text' = text
          /\ advice' = text
          /\ Goto("summarize")
  /\ UNCHANGED <<total_charged, total_drained, net_energy_level, input_text,
                 average_trend, negative_days, positive_days,
                 max_day_of_week_negative, html_report>>
  /\ UNCHANGED <<fetch_vars, out_vars>>

\* generate_energy_balance_analysis, lines 197-203 and line 212: the one
\* call to the narrative generator.
NarrativeCall ==
  /\ pc = "narrative_call"
  /\ llm_calls' = llm_calls + 1
  /\ \/ /\ Raise("APIError")
        /\ UNCHANGED <<generated_text, advice>>
     \/ \E text \in AdviceTexts :
          /\ generated_text' = text
          /\ advice' = text
          /\ Goto("summarize")
  /\ UNCHANGED <<total_charged, total_drained, net_energy_level, input_text,
                 average_trend, negative_days, positive_days,
                 max_day_of_week_negative, html_report>>
  /\ UNCHANGED <<fetch_vars, out_vars>>

\* Lines 214-235.
Summarize ==
  /\ pc = "summarize"
  /\ average_trend' = AverageTrend(net_energy_level)
  /\ negative_days' = NegativeDays(combined_data_array)
  /\ positive_days' = PositiveDays(combined_data_array)
  /\ max_day_of_week_negative' = MaxDayOfWeekNegative(negative_days')
  /\ Goto("save_plots")
  /\ UNCHANGED <<total_charged, total_drained, net_energy_level, input_text,
                 generated_text, advice, llm_calls, html_report>>
  /\ UNCHANGED <<fetch_vars, out_vars>>

\* The chart files after the first n of them are saved.
ChartsSaved(n) ==
  [f \in DOMAIN disk |->
     IF \E i \in 1..n : ChartFiles[i] = f
       THEN [kind |-> "png", complete |-> TRUE,
             data |-> BarColors(combined_data_array)]
       ELSE disk[f]]

\* Line 237, save_drained_vs_charged_plot: three charts are saved in turn;
\* a failure after n charts leaves those n on disk.
SavePlots ==
  /\ pc = "save_plots"
  /\ \E n \in 0..3 :
       /\ disk' = ChartsSaved(n)
       /\ IF n = 3 THEN Goto("post_process") ELSE Raise("OSError")
  /\ UNCHANGED <<msg, sent>>
  /\ UNCHANGED <<fetch_vars, report_vars>>

\* Lines 239-241.
PostProcessAdvice ==
  /\ pc = "post_process"
  /\ advice' = PostProcess(advice)
  /\ Goto("read_template")
  /\ UNCHANGED <<total_charged, total_drained, net_energy_level, input_text,
                 generated_text, llm_calls, average_trend, negative_days,
                 positive_days, max_day_of_week_negative, html_report>>
  /\ UNCHANGED <<fetch_vars, out_vars>>

\* Lines 243-244.
ReadTemplate ==
  /\ pc = "read_template"
  /\ \/ Goto("render")
     \/ Raise("FileNotFoundError")
  /\ UNCHANGED <<fetch_vars, report_vars, out_vars>>

\* Lines 246-261.
RenderTemplate ==
  /\ pc = "render"
  /\ \/ /\ html_report' =
             [graph_output_filename        |-> ChartFiles[1],
              stress_graph_output_filename |-> ChartFiles[2],
              sleep_graph_output_filename  |-> ChartFiles[3],
              advice              |-> advice,
              total_charged       |-> total_charged,
              total_drained       |-> total_drained,
              net_energy_level    |-> net_energy_level,
              average_trend       |-> average_trend,
              negative_days       |-> Len(negative_days),
              positive_days       |-> Len(positive_days),
              negative_days_array |-> NegativeDays(combined_data_array),
              positive_days_array |-> PositiveDays(combined_data_array),
              max_day_of_week_negative |-> max_day_of_week_negative]
        /\ Goto("write_report")
     \/ /\ Raise("TemplateError")
        /\ UNCHANGED html_report
  /\ UNCHANGED <<total_charged, total_drained, net_energy_level, input_text,
                 generated_text, advice, llm_calls, average_trend,
                 negative_days, positive_days, max_day_of_week_negative>>
  /\ UNCHANGED <<fetch_vars, out_vars>>

\* Lines 263-264: open(..., "w") creates the file, write fills it.
WriteReport ==
  /\ pc = "write_report"
  /\ \/ /\ disk' = [disk EXCEPT ![ReportFile] =
                      [kind |-> "html", complete |-> TRUE, data |-> html_report]]
        /\ Goto("compose")
     \/ /\ disk' = [disk EXCEPT ![ReportFile] =
                      [kind |-> "html", complete |-> FALSE, data |-> <<>>]]
        /\ Raise("OSError")
     \/ /\ Raise("PermissionError")
        /\ UNCHANGED disk
  /\ UNCHANGED <<msg, sent>>
  /\ UNCHANGED <<fetch_vars, report_vars>>

----------------------------------------------------------------------------
(* send_email_report                                                       *)

ContentId(f) == <<"cid:", f>>

\* Lines 267-295: the report and the three charts are read, the message is
\* composed, the chart references of the report become content ids.
ComposeMessage ==
  /\ pc = "compose"
  /\ \/ /\ msg' = [subject |-> "Energy Report",
                   images  |-> [i \in 1..3 |-> ContentId(ChartFiles[i])],
                   html    |-> [disk[ReportFile].data EXCEPT
                                  !.graph_output_filename = ContentId(@),
                                  !.stress_graph_output_filename = ContentId(@),
                                  !.sleep_graph_output_filename = ContentId(@)]]
        /\ Goto("smtp_send")
     \/ /\ Raise("OSError")
        /\ UNCHANGED msg
  /\ UNCHANGED <<disk, sent>>
  /\ UNCHANGED <<fetch_vars, report_vars>>

\* Lines 297-300: connect, starttls, login, send_message.
SmtpSend ==
  /\ pc = "smtp_send"
  /\ \/ /\ sent' = Append(sent, msg)
        /\ Goto("smtp_quit")
     \/ /\ Raise("SMTPException")
        /\ UNCHANGED sent
  /\ UNCHANGED <<disk, msg>>
  /\ UNCHANGED <<fetch_vars, report_vars>>

\* Line 301.
SmtpQuit ==
  /\ pc = "smtp_quit"
  /\ \/ Goto("done")
     \/ Raise("SMTPServerDisconnected")
  /\ UNCHANGED <<fetch_vars, report_vars, out_vars>>

----------------------------------------------------------------------------
(* The run                                                                 *)

Next ==
  \/ TokenLogin
  \/ CredentialLogin
  \/ GetBodyBattery
  \/ GetSleepData
  \/ GetStressData
  \/ Totals
  \/ NarrativeRequest
  \/ NarrativeCall
  \/ Summarize
  \/ SavePlots
  \/ PostProcessAdvice
  \/ ReadTemplate
  \/ RenderTemplate
  \/ WriteReport
  \/ ComposeMessage
  \/ SmtpSend
  \/ SmtpQuit

Spec == Init /\ [][Next]_vars

----------------------------------------------------------------------------
(* The aggregation of one date, with every code the tables can be given    *)

GetSleepDataAnyCode == GetSleepDataFrom(FeedbackInputs \X InsightInputs)

\* The state at line 334 after a body-battery response of one date.
InitLookup ==
  /\ pc = "get_sleep_data"
  /\ error = "" /\ failed_at = "" /\ api = "garmin"
  /\ bb_result_array \in ResponsesOf(1) /\ idx = 1
  /\ sleep_data = <<>> /\ stress_data = <<>> /\ sleep_entry = <<>>
  /\ combined_data_array = <<>> /\ absent = NoAbsent
  /\ total_charged = 0 /\ total_drained = 0 /\ net_energy_level = 0
  /\ input_text = <<>> /\ generated_text = <<>> /\ advice = <<>>
  /\ llm_calls = 0
  /\ average_trend = "" /\ negative_days = <<>> /\ positive_days = <<>>
  /\ max_day_of_week_negative = ""
  /\ html_report = <<>> /\ disk = EmptyDisk /\ msg = <<>> /\ sent = <<>>

NextLookup ==
  \/ GetSleepDataAnyCode
  \/ GetStressData

SpecLookup == InitLookup /\ [][NextLookup]_vars

----------------------------------------------------------------------------
(* Properties                                                              *)

ReportStages ==
  {"totals", "narrative_request", "narrative_call", "summarize", "save_plots",
   "post_process", "read_template", "render", "write_report"}
MailStages == {"compose", "smtp_send", "smtp_quit"}

\* The statement the run is at, or was at when it failed.
At == IF pc = "failed" THEN failed_at ELSE pc

\* generate_html_report was entered.
ReportStarted == At \in ReportStages \cup MailStages \cup {"done"}

\* The narrative generator returned.
NarrativeReturned ==
  At \in (ReportStages \ {"totals", "narrative_request", "narrative_call"})
         \cup MailStages \cup {"done"}

\* Lines 214-235 were executed.
Summarized == NarrativeReturned /\ At # "summarize"

\* Lines 239-241 were executed.
PostProcessed == Summarized /\ At \notin {"save_plots", "post_process"}

\* The template was rendered.
Rendered == PostProcessed /\ At \notin {"read_template", "render"}

AnyChartWritten == \E i \in 1..3 : Written(ChartFiles[i])
AllChartsWritten == \A i \in 1..3 : Written(ChartFiles[i])

InSeq(e, s) == \E i \in 1..Len(s) : s[i] = e

\* The position of a record of the window.
PositionOf(e) == CHOOSE i \in 1..Len(combined_data_array) : combined_data_array[i] = e

\* The lists are in the order of the window.
InWindowOrder(s) ==
  /\ \A i \in 1..Len(s) : InSeq(s[i], combined_data_array)
  /\ \A i, j \in 1..Len(s) : i < j => PositionOf(s[i]) < PositionOf(s[j])

RECURSIVE SumOfDifferences(_)
SumOfDifferences(data) ==
  IF data = <<>> THEN 0
  ELSE (data[1].charged - data[1].drained) + SumOfDifferences(Tail(data))

\* The weekdays of the dates of the pool, from the calendar of 2024.
CalendarWeekday(date) ==
  CASE date = DatePool[1] -> 6
    [] date = DatePool[2] -> 0
    [] date = DatePool[3] -> 2
    [] date = DatePool[4] -> 3
    [] date = DatePool[5] -> 0

\* The number of days of the window with charged < drained on weekday w.
NegativeCount(w) ==
  Cardinality({i \in 1..Len(combined_data_array) :
                 /\ combined_data_array[i].charged < combined_data_array[i].drained
                 /\ CalendarWeekday(combined_data_array[i].date) = w})

RECURSIVE ToggleBold(_, _)
\* The marker occurrences of a text become, in turn, an opening and a
\* closing tag.
ToggleBold(s, open) ==
  IF s = <<>> THEN <<>>
  ELSE IF StartsWith(s, BoldMarker)
    THEN (IF open THEN OpenTag ELSE CloseTag)
         \o ToggleBold(SubSeq(s, Len(BoldMarker) + 1, Len(s)), ~open)
    ELSE <<s[1]>> \o ToggleBold(Tail(s), open)

\* The stages of a run: authentication, fetch, aggregation, narrative
\* generation, chart and template rendering, mail transport.
FallibleStages ==
  {"token_login", "credential_login", "get_body_battery", "get_sleep_data",
   "get_stress_data", "narrative_request", "narrative_call", "save_plots",
   "read_template", "render"} \cup MailStages

\* C1: a run that fails in any stage has written no report file and has
\* sent no email; in particular a failure in send_email_report leaves no
\* report file of the run on disk.
NoReportNoEmailOnFailure ==
  (pc = "failed" /\ failed_at \in FallibleStages) =>
    ~Written(ReportFile) /\ sent = <<>>

\* C2: net_energy_level is the sum of charged minus the sum of drained of
\* the window, and average_trend is "Net Positive" exactly when
\* net_energy_level >= 0, "Net Negative" otherwise.
NetEnergyAndTrend ==
  Summarized =>
    /\ combined_data_array # <<>>
    /\ net_energy_level = total_charged - total_drained
    /\ net_energy_level = SumOfDifferences(combined_data_array)
    /\ average_trend \in {"Net Positive", "Net Negative"}
    /\ average_trend = "Net Positive" <=> net_energy_level >= 0

\* A window that sums to a balance of zero is reported "Net Positive".
ZeroBalanceIsPositive ==
  /\ Summarized
  /\ total_charged > 0
  /\ net_energy_level = 0
  /\ average_trend = "Net Positive"

\* C3: the negative and the positive list partition the window: a record is
\* in the negative list iff charged < drained, in the positive list iff
\* charged >= drained, in exactly one of them; the lengths add up to the
\* length of the window and both lists keep the order of the window.
PartitionOfWindow ==
  Summarized =>
    /\ \A i \in 1..Len(combined_data_array) :
         LET e == combined_data_array[i]
         IN  /\ InSeq(e, negative_days) <=> e.charged < e.drained
             /\ InSeq(e, positive_days) <=> e.charged >= e.drained
             /\ InSeq(e, negative_days) # InSeq(e, positive_days)
    /\ Len(negative_days) + Len(positive_days) = Len(combined_data_array)
    /\ InWindowOrder(negative_days)
    /\ InWindowOrder(positive_days)
    /\ Rendered =>
         /\ html_report.negative_days + html_report.positive_days
              = Len(combined_data_array)
         /\ html_report.negative_days_array = negative_days
         /\ html_report.positive_days_array = positive_days

\* A window with a negative day and a day with charged = drained.
WindowWithNegativeAndEqualDay ==
  /\ Rendered
  /\ Len(negative_days) = 1
  /\ Len(positive_days) = 1
  /\ positive_days[1].charged = positive_days[1].drained

\* C4: the worst weekday is the weekday with the most negative days, the
\* lowest index among those with the highest count, and "N/A" when there is
\* no negative day.
WorstWeekdayIsFirstMode ==
  Summarized =>
    IF \A w \in 0..6 : NegativeCount(w) = 0
      THEN max_day_of_week_negative = "N/A"
      ELSE \E w \in 0..6 :
             /\ max_day_of_week_negative = day_name[w]
             /\ \A v \in 0..6 : NegativeCount(v) <= NegativeCount(w)
             /\ \A v \in 0..6 : v < w => NegativeCount(v) < NegativeCount(w)

\* A negative Sunday followed by a negative Monday: Monday is reported.
SundayMondayTie ==
  /\ Summarized
  /\ Len(negative_days) = 2
  /\ negative_days[1].date = DatePool[1]
  /\ negative_days[2].date = DatePool[2]
  /\ max_day_of_week_negative = "Monday"

\* C5: with an empty window generate_html_report raises before the
\* narrative generator is called, before a chart or the report is written
\* and before an email is sent; nothing is summarized.
EmptyWindowFails ==
  (ReportStarted /\ combined_data_array = <<>>) =>
    /\ At \in {"totals", "narrative_request"}
    /\ pc = "failed" => error = "IndexError"
    /\ llm_calls = 0
    /\ ~AnyChartWritten /\ ~Written(ReportFile)
    /\ sent = <<>>
    /\ average_trend = "" /\ max_day_of_week_negative = ""

\* The run of an empty window has failed.
EmptyWindowFailed ==
  /\ pc = "failed"
  /\ failed_at = "narrative_request"
  /\ error = "IndexError"
  /\ combined_data_array = <<>>
  /\ api = "garmin"

BoldMarkersAlternate ==
  PostProcessed =>
    advice = ToggleBold(Replace(generated_text, Newline, BrTag), TRUE)

\* C8: when a required field is absent from a response for a date, the run
\* fails at that date: no record is appended for that date or a later one,
\* and neither report generation nor email sending is reached.
MissingFieldAborts ==
  absent # NoAbsent =>
    /\ pc = "failed"
    /\ error = "KeyError"
    /\ failed_at \in {"get_body_battery", "get_sleep_data", "get_stress_data"}
    /\ Len(combined_data_array) < absent.day
    /\ ~ReportStarted
    /\ llm_calls = 0
    /\ ~AnyChartWritten /\ ~Written(ReportFile)
    /\ sent = <<>>

\* The stress response of the second date lacks maxStressLevel: the run
\* fails with the record of the first date alone.
SecondDateLacksStressField ==
  /\ absent = [day |-> 2, key |-> "maxStressLevel"]
  /\ pc = "failed"
  /\ Len(combined_data_array) = 1

\* The codes of the last sleep response.
RawFeedback == sleep_data.dailySleepDTO.sleepScoreFeedback
RawInsight == sleep_data.dailySleepDTO.sleepScoreInsight

\* C9: each of the 8 feedback codes and of the 6 insight codes is replaced
\* by its explanation, every other text is kept unchanged, and no text
\* makes the lookup fail.
LookupTablesTotal ==
  /\ Cardinality(DOMAIN feedback_mapping) = 8
  /\ Cardinality(DOMAIN insight_mapping) = 6
  /\ At \in {"get_stress_data", "totals"} =>
       /\ RawFeedback \in DOMAIN feedback_mapping =>
            /\ sleep_entry.sleep_feedback = feedback_mapping[RawFeedback]
            /\ sleep_entry.sleep_feedback # RawFeedback
       /\ RawFeedback \notin DOMAIN feedback_mapping =>
            sleep_entry.sleep_feedback = RawFeedback
       /\ RawInsight \in DOMAIN insight_mapping =>
            /\ sleep_entry.sleep_insight = insight_mapping[RawInsight]
            /\ sleep_entry.sleep_insight # RawInsight
       /\ RawInsight \notin DOMAIN insight_mapping =>
            sleep_entry.sleep_insight = RawInsight
  /\ (pc = "failed" /\ failed_at = "get_sleep_data" /\ absent = NoAbsent)
       => error = "GarminConnectConnectionError"

\* An unknown feedback code is kept and a known insight code is explained.
UnknownCodeKept ==
  /\ pc = "get_stress_data"
  /\ RawFeedback = "SOME_NEW_CODE"
  /\ sleep_entry.sleep_feedback = "SOME_NEW_CODE"
  /\ RawInsight = "NONE"
  /\ sleep_entry.sleep_insight = insight_mapping["NONE"]

\* C10: the bar of a day is green iff the day is in the positive list and
\* red iff it is in the negative list, in each of the three charts.
ChartsAgreeWithSummary ==
  (Summarized /\ AllChartsWritten) =>
    \A f \in 1..3 : \A i \in 1..Len(combined_data_array) :
      LET color == disk[ChartFiles[f]].data[i]
          e == combined_data_array[i]
      IN  /\ color = "green" <=> InSeq(e, positive_days)
          /\ color = "red" <=> InSeq(e, negative_days)

====
